---- MODULE Spec2Model ----
(***************************************************************************)
(* The ingestion pipeline of explorer-server/src/indexer.rs:               *)
(*   - index_thread: the fetch workers (claim, throttle, fetch, send);     *)
(*   - run_indexer_inner: the sequencer (receive, shelf, apply, publish),  *)
(*     the join of the workers, the mempool refresh and the hand-off;      *)
(*   - monitor_new_blocks / try_monitor_new_blocks: the live block loop;   *)
(*   - monitor_mempool / update_mempool: the mempool index;                *)
(*   - IndexerDevelopment: the synthetic variant (one worker, generated    *)
(*     blocks, a shutdown flag);                                           *)
(* and the balances computed by Server::address of                         *)
(* explorer-server/src/server.rs.                                          *)
(* A block batch is represented by the height of its block.                *)
(***************************************************************************)
EXTENDS Integers, Sequences, FiniteSets

\* Parameters of the run, scaled down: indexer.rs:161 sets num_threads = 50 and
\* indexer.rs:73 sets MAX_FETCH_AHEAD = 1000; as there, the look-ahead is not
\* smaller than the pool.
num_threads == 2
max_fetch_ahead == 2
\* Bounds of the environment: the highest block the node ever holds, the number
\* of blocks the store may hold at startup, the number of failures injected.
MaxTip == 3
MaxStored == 2
MaxFaults == 1
\* The number of distinct unconfirmed transactions.
MaxTxs == 1
\* The number of distinct transactions when update_mempool is run on its own.
MaxRefreshTxs == 3
\* Server::address: the number of UTXOs of the address, the highest value and
\* token amount of a UTXO, the number of distinct token ids.
MaxUtxos == 2
MaxValue == 2
MaxTokens == 2
\* Server::data_block_txs: the highest num_pages the backend reports for a
\* block and the highest number of transactions on one page.
MaxPages == 3
MaxPageTxs == 2

Workers == 1..num_threads
Txs == 1..MaxTxs

VARIABLES
    chainTip,               \* the node's chain holds the blocks 0..chainTip
    dbHeights,              \* heights whose block batch IndexStore holds
    applied,                \* heights handed to apply_block_batches, in order, this run
    claimed,                \* values returned by fetch_add, in order
    last_height,            \* run_indexer_inner: last_height
    current_height_atomic,  \* the shared claim counter
    watch_height,           \* value held by the watch channel
    unseen,                 \* per worker: its watch receiver has a value it has not seen
    wpc,                    \* per worker: position in index_thread
    block_height,           \* per worker: the height it claimed
    wresult,                \* per worker: result of index_thread
    send_batches,           \* the mpsc channel: batches sent and not yet received
    block_shelf,            \* run_indexer_inner: block_shelf (its keys)
    current_height,         \* run_indexer_inner: current_height
    spc,                    \* position of run_indexer_inner
    sresult,                \* result of run_indexer_inner
    mpc,                    \* position of monitor_new_blocks
    block_stream,           \* notifications queued on the block subscription
    tpc,                    \* position of monitor_mempool
    mempool_idx,            \* transactions in IndexStore's mempool index
    snapshot,               \* update_mempool in the block loop: the batch it built
    late_txs,               \* what the mempool loop applied between that fetch and the clear
    refreshed,              \* the block loop's last applied block had its refresh completed
    faults,                 \* failures injected so far
    \* update_mempool run on its own
    upc,                    \* position of update_mempool
    idx_history,            \* the mempool index before and after each refresh
    \* IndexerDevelopment
    scheduled_for_termination,  \* the shutdown flag
    dev_exited,             \* the Ctrl-C handler has called std::process::exit
    dev_sent_after,         \* batches sent since the flag was set
    dev_atomic,             \* current_height_atomic
    dev_wpc,                \* position of index_thread
    dev_block_height,       \* the height the worker claimed
    dev_wresult,            \* result of index_thread
    dev_unseen,             \* the worker's watch receiver has a value it has not seen
    dev_send_batches,       \* the mpsc channel
    dev_watch_height,       \* value held by the watch channel
    dev_block_shelf,        \* run_indexer_inner: block_shelf (its keys)
    dev_current_height,     \* run_indexer_inner: current_height
    dev_last_height,        \* run_indexer_inner: last_height
    dev_spc,                \* position of run_indexer_inner
    dev_sresult,            \* result of run_indexer_inner
    dev_dbHeights,          \* heights whose block batch the store holds
    dev_applied,            \* heights handed to apply_block_batches, in order
    dev_faults,             \* failures injected so far
    \* Server::address
    utxos,                  \* the UTXOs of the script, as chronik returned them
    json_balances,          \* json_balances: key -> balance
    main_json_balance,      \* main_json_balance
    total_xec,              \* total_xec
    token_dust,             \* token_dust
    visited,                \* the number of UTXOs the loop has visited
    fetch_ahead,            \* the indexer's field max_fetch_ahead
    apc,                    \* position of Server::address
    \* Server::data_block_txs
    num_pages,              \* num_pages the backend reports for the block
    page,                   \* page
    block_txs,              \* block_txs
    requests,               \* the pages requested so far, in order
    bpc                     \* position of Server::data_block_txs

prodVars == <<chainTip, dbHeights, applied, claimed, last_height, current_height_atomic,
              watch_height, unseen, wpc, block_height, wresult, send_batches,
              block_shelf, current_height, spc, sresult, mpc, block_stream, tpc,
              mempool_idx, snapshot, late_txs, refreshed, faults>>

updateVars == <<upc, idx_history>>

devVars == <<scheduled_for_termination, dev_exited, dev_sent_after, dev_atomic, dev_wpc,
             dev_block_height, dev_wresult, dev_unseen, dev_send_batches,
             dev_watch_height, dev_block_shelf, dev_current_height, dev_last_height,
             dev_spc, dev_sresult, dev_dbHeights, dev_applied, dev_faults>>

addressVars == <<utxos, json_balances, main_json_balance, total_xec, token_dust, visited,
                 apc>>

configVars == <<fetch_ahead>>

blockTxsVars == <<num_pages, page, block_txs, requests, bpc>>

\* What a step of IndexerProduction leaves alone.
outsideProd == <<updateVars, devVars, addressVars, configVars, blockTxsVars>>

vars == <<prodVars, updateVars, devVars, addressVars, configVars, blockTxsVars>>

nodeVars == <<chainTip, block_stream>>
storeVars == <<dbHeights, applied>>
workerVars == <<current_height_atomic, claimed, unseen, wpc, block_height, wresult>>
seqVars == <<block_shelf, current_height, spc, sresult, last_height>>
mempoolVars == <<tpc, mempool_idx, snapshot, late_txs, refreshed>>

SetMax(S) == CHOOSE x \in S : \A y \in S : y <= x

\* IndexStore::last_block_height: the highest stored height, 0 for an empty store.
last_block_height(db) == IF db = {} THEN 0 ELSE SetMax(db)

\* mpsc::channel(num_threads * 2)
channel_capacity == num_threads * 2

\* A counter update that loses the increment (a plain load without the add).
fetch_add_lost(c) == c

\* AtomicUsize::fetch_add(1): the new value of the counter (the old one is returned).
fetch_add(c) == c + 1

\* A throttle that lets a worker run one height further than the bound.
throttled_off_by_one(v, h) == v + fetch_ahead + 1 < h

\* A worker that never throttles.
throttled_never(v, h) == FALSE

\* The throttle condition of index_thread's inner while loop.
throttled(v, h) == v + fetch_ahead < h

SetMin(S) == CHOOSE x \in S : \A y \in S : x <= y

\* A sequencer that takes the highest shelved batch once the next height is there.
next_on_shelf_highest(shelf, cur) == IF cur \in shelf THEN {SetMax(shelf)} ELSE {}

\* A sequencer that takes the lowest shelved batch without waiting for the next height.
next_on_shelf_lowest(shelf, cur) == IF shelf # {} THEN {SetMin(shelf)} ELSE {}

\* The shelf keys the inner while loop of run_indexer_inner removes and applies
\* next: current_height if block_shelf.contains_key(&current_height), else none.
next_on_shelf(shelf, cur) == IF cur \in shelf THEN {cur} ELSE {}

\* An increment that skips a height.
next_height_skip(c) == c + 2

\* current_height += 1
next_height(c) == c + 1

\* The applied entry is left on the shelf.
shelf_keep(shelf, h) == shelf

\* block_shelf.remove(&current_height)
shelf_remove(shelf, h) == shelf \ {h}

\* "block not found" treated like any other fetch error
on_block_not_found_fatal == "transport_error"

\* index_thread's result for Err "block not found": return Ok(())
on_block_not_found == "ok"

\* The join ignores the workers' results.
join_failed_ignored == FALSE

\* handle.await?? fails for some worker: its task returned an error
join_failed == \E w \in Workers : wresult[w] # "ok"

\* IndexStore::clear_mempool: the mempool index afterwards
mempool_cleared == {}

\* IndexStore::apply_batch of a mempool batch: the mempool index afterwards
mempool_applied(idx, batch) == idx \cup batch

\* The monitor ends after try_monitor_* returns.
monitor_gives_up == "off"

\* monitor_new_blocks / monitor_mempool: after try_monitor_* returns (Ok or Err)
\* the loop calls it again, which subscribes anew.
monitor_restart == "subscribe"

\* A failed send ends the worker.
after_send_failed_stop == "done"

\* index_thread after send_batches.send(..) failed: the error is mapped to a
\* println and discarded, the loop goes on.
after_send_failed == "claim"

\* run_indexer_inner has returned: the mpsc receiver and the watch sender are dropped.
returned == spc \in {"ok", "err"}

\* Every worker task has finished, so every mpsc sender is dropped.
all_senders_dropped == \A w \in Workers : wpc[w] = "done"

\* connect: max_fetch_ahead: MAX_FETCH_AHEAD
ConfigDefault == fetch_ahead = max_fetch_ahead

\* update_mempool is not run on its own.
UpdateOff ==
    /\ upc = "off"
    /\ idx_history = <<>>

\* No IndexerDevelopment exists.
DevOff ==
    /\ scheduled_for_termination = FALSE
    /\ dev_exited = FALSE
    /\ dev_sent_after = 0
    /\ dev_atomic = 0
    /\ dev_wpc = "off"
    /\ dev_block_height = 0
    /\ dev_wresult = "running"
    /\ dev_unseen = FALSE
    /\ dev_send_batches = <<>>
    /\ dev_watch_height = 0
    /\ dev_block_shelf = {}
    /\ dev_current_height = 0
    /\ dev_last_height = 0
    /\ dev_spc = "off"
    /\ dev_sresult = "running"
    /\ dev_dbHeights = {}
    /\ dev_applied = <<>>
    /\ dev_faults = 0

\* No block's transactions are being fetched.
BlockTxsOff ==
    /\ num_pages = 0
    /\ page = 0
    /\ block_txs = <<>>
    /\ requests = <<>>
    /\ bpc = "off"

\* No address page is being computed.
AddressOff ==
    /\ utxos = <<>>
    /\ json_balances = <<>>
    /\ main_json_balance = <<>>
    /\ total_xec = 0
    /\ token_dust = 0
    /\ visited = 0
    /\ apc = "off"

Init ==
    /\ chainTip \in 0..MaxTip
    /\ dbHeights \in {0..(k - 1) : k \in 0..MaxStored}
    /\ dbHeights \subseteq 0..chainTip
    /\ applied = <<>>
    /\ claimed = <<>>
    /\ last_height = last_block_height(dbHeights)
    /\ current_height_atomic = last_height
    /\ watch_height = last_height
    /\ unseen = [w \in Workers |-> TRUE]
    /\ wpc = [w \in Workers |-> "claim"]
    /\ block_height = [w \in Workers |-> 0]
    /\ wresult = [w \in Workers |-> "running"]
    /\ send_batches = <<>>
    /\ block_shelf = {}
    /\ current_height = last_height
    /\ spc = "recv"
    /\ sresult = "running"
    /\ mpc = "off"
    /\ block_stream = <<>>
    /\ tpc = "off"
    /\ mempool_idx = {}
    /\ snapshot = {}
    /\ late_txs = {}
    /\ refreshed = TRUE
    /\ faults = 0
    /\ ConfigDefault
    /\ BlockTxsOff
    /\ UpdateOff
    /\ DevOff
    /\ AddressOff

----
\* index_thread

\* let block_height = current_height_atomic.fetch_add(1, SeqCst)
Claim(w) ==
    /\ wpc[w] = "claim"
    /\ block_height' = [block_height EXCEPT ![w] = current_height_atomic]
    /\ claimed' = Append(claimed, current_height_atomic)
    /\ current_height_atomic' = fetch_add(current_height_atomic)
    /\ wpc' = [wpc EXCEPT ![w] = "throttle"]
    /\ UNCHANGED <<mempoolVars, nodeVars, storeVars, seqVars, watch_height, unseen, wresult,
                   send_batches, mpc, faults>>
    /\ UNCHANGED outsideProd

\* while *watch_height_receiver.borrow() + max_fetch_ahead < block_height
Throttle(w) ==
    /\ wpc[w] = "throttle"
    /\ wpc' = [wpc EXCEPT ![w] =
                 IF throttled(watch_height, block_height[w]) THEN "wait" ELSE "fetch"]
    /\ UNCHANGED <<mempoolVars, nodeVars, storeVars, seqVars, current_height_atomic, claimed,
                   watch_height, unseen, block_height, wresult, send_batches, mpc, faults>>
    /\ UNCHANGED outsideProd

\* watch_height_receiver.recv().await: completes when the receiver holds a value
\* it has not seen (also the initial one) or when the sender is dropped.
WatchRecv(w) ==
    /\ wpc[w] = "wait"
    /\ unseen[w] \/ returned
    /\ unseen' = [unseen EXCEPT ![w] = FALSE]
    /\ wpc' = [wpc EXCEPT ![w] = "throttle"]
    /\ UNCHANGED <<mempoolVars, nodeVars, storeVars, seqVars, current_height_atomic, claimed,
                   watch_height, block_height, wresult, send_batches, mpc, faults>>
    /\ UNCHANGED outsideProd

\* bchd.get_block(height).await and the match on its result, up to the send.
Fetch(w) ==
    /\ wpc[w] = "fetch"
    /\ \/ \* Ok with a block: make_block_batches succeeds
          /\ block_height[w] <= chainTip
          /\ wpc' = [wpc EXCEPT ![w] = "send"]
          /\ UNCHANGED <<wresult, faults>>
       \/ \* Ok with a block: make_block_batches fails, return Err(err)
          /\ block_height[w] <= chainTip
          /\ faults < MaxFaults
          /\ faults' = faults + 1
          /\ wpc' = [wpc EXCEPT ![w] = "done"]
          /\ wresult' = [wresult EXCEPT ![w] = "store_error"]
       \/ \* Ok without a block: nothing is sent, the loop claims the next height
          /\ faults < MaxFaults
          /\ faults' = faults + 1
          /\ wpc' = [wpc EXCEPT ![w] = "claim"]
          /\ UNCHANGED wresult
       \/ \* Err "block not found": return Ok(())
          /\ block_height[w] > chainTip
          /\ wpc' = [wpc EXCEPT ![w] = "done"]
          /\ wresult' = [wresult EXCEPT ![w] = on_block_not_found]
          /\ UNCHANGED faults
       \/ \* any other Err: return Err(err.into())
          /\ faults < MaxFaults
          /\ faults' = faults + 1
          /\ wpc' = [wpc EXCEPT ![w] = "done"]
          /\ wresult' = [wresult EXCEPT ![w] = "transport_error"]
    /\ UNCHANGED <<mempoolVars, nodeVars, storeVars, seqVars, current_height_atomic, claimed,
                   watch_height, unseen, block_height, send_batches, mpc>>
    /\ UNCHANGED outsideProd

\* A worker that writes its batch to the store itself before sending it.
SendAndApply(w) ==
    /\ wpc[w] = "send"
    /\ IF returned
         THEN UNCHANGED send_batches
         ELSE /\ Len(send_batches) < channel_capacity
              /\ send_batches' = Append(send_batches, block_height[w])
    /\ dbHeights' = dbHeights \cup {block_height[w]}
    /\ wpc' = [wpc EXCEPT ![w] = IF returned THEN after_send_failed ELSE "claim"]
    /\ UNCHANGED <<mempoolVars, nodeVars, applied, seqVars, current_height_atomic, claimed,
                   watch_height, unseen, block_height, wresult, mpc, faults>>
    /\ UNCHANGED outsideProd

\* send_batches.send(batches).await, its error only logged
Send(w) ==
    /\ wpc[w] = "send"
    /\ IF returned
         THEN UNCHANGED send_batches
         ELSE /\ Len(send_batches) < channel_capacity
              /\ send_batches' = Append(send_batches, block_height[w])
    /\ wpc' = [wpc EXCEPT ![w] = IF returned THEN after_send_failed ELSE "claim"]
    /\ UNCHANGED <<mempoolVars, nodeVars, storeVars, seqVars, current_height_atomic, claimed,
                   watch_height, unseen, block_height, wresult, mpc, faults>>
    /\ UNCHANGED outsideProd

----
\* run_indexer_inner

\* receive_batches.recv().await and block_shelf.insert; None once every sender is dropped
SeqRecv ==
    /\ spc = "recv"
    /\ \/ /\ send_batches # <<>>
          /\ block_shelf' = block_shelf \cup {Head(send_batches)}
          /\ send_batches' = Tail(send_batches)
          /\ spc' = "drain"
       \/ /\ send_batches = <<>>
          /\ all_senders_dropped
          /\ spc' = "join"
          /\ UNCHANGED <<block_shelf, send_batches>>
    /\ UNCHANGED <<mempoolVars, nodeVars, storeVars, workerVars, watch_height, current_height,
                   sresult, last_height, mpc, faults>>
    /\ UNCHANGED outsideProd

\* while block_shelf.contains_key(&current_height): remove, apply_block_batches, flush.
\* An error returns from run_indexer_inner, which drops the receiver and what it buffers.
SeqApply ==
    /\ spc = "drain"
    /\ IF next_on_shelf(block_shelf, current_height) = {}
         THEN /\ spc' = "recv"
              /\ UNCHANGED <<block_shelf, storeVars, sresult, faults, send_batches>>
         ELSE \E h \in next_on_shelf(block_shelf, current_height) :
              /\ block_shelf' = shelf_remove(block_shelf, h)
              /\ \/ \* apply_block_batches fails
                    /\ faults < MaxFaults
                    /\ faults' = faults + 1
                    /\ spc' = "err"
                    /\ sresult' = "store_error"
                    /\ send_batches' = <<>>
                    /\ UNCHANGED storeVars
                 \/ \* applied; no flush is due, or flush succeeds
                    /\ dbHeights' = dbHeights \cup {h}
                    /\ applied' = Append(applied, h)
                    /\ spc' = "publish"
                    /\ UNCHANGED <<sresult, faults, send_batches>>
                 \/ \* applied; flush fails
                    /\ faults < MaxFaults
                    /\ faults' = faults + 1
                    /\ dbHeights' = dbHeights \cup {h}
                    /\ applied' = Append(applied, h)
                    /\ spc' = "err"
                    /\ sresult' = "store_error"
                    /\ send_batches' = <<>>
    /\ UNCHANGED <<mempoolVars, nodeVars, workerVars, watch_height, current_height, last_height,
                   mpc>>
    /\ UNCHANGED outsideProd

\* A sequencer that increments current_height without broadcasting it.
SeqPublishSilent ==
    /\ spc = "publish"
    /\ current_height' = next_height(current_height)
    /\ spc' = "drain"
    /\ UNCHANGED <<mempoolVars, nodeVars, storeVars, workerVars, watch_height, send_batches,
                   block_shelf, sresult, last_height, mpc, faults>>
    /\ UNCHANGED outsideProd

\* current_height += 1; watch_height_sender.broadcast(current_height)
SeqPublish ==
    /\ spc = "publish"
    /\ current_height' = next_height(current_height)
    /\ watch_height' = current_height'
    /\ unseen' = [w \in Workers |-> TRUE]
    /\ spc' = "drain"
    /\ UNCHANGED <<mempoolVars, nodeVars, storeVars, current_height_atomic, claimed, wpc,
                   block_height, wresult, send_batches, block_shelf, sresult, last_height,
                   mpc, faults>>
    /\ UNCHANGED outsideProd

\* for handle in join_handles { handle.await??; }
SeqJoin ==
    /\ spc = "join"
    /\ IF join_failed
         THEN spc' = "err" /\ sresult' = "worker_error"
         ELSE spc' = "refresh" /\ UNCHANGED sresult
    /\ UNCHANGED <<mempoolVars, nodeVars, storeVars, workerVars, watch_height, send_batches,
                   block_shelf, current_height, last_height, mpc, faults>>
    /\ UNCHANGED outsideProd

\* self.update_mempool().await?: get_mempool, make_mempool_txs,
\* make_mempool_tx_batches, clear_mempool, apply_batch; no other task runs.
SeqRefresh ==
    /\ spc = "refresh"
    /\ \/ \* the refresh succeeds with the node's current mempool
          /\ \E txs \in SUBSET Txs :
                 mempool_idx' = mempool_applied(mempool_cleared, txs)
          /\ spc' = "spawn"
          /\ UNCHANGED <<sresult, faults>>
       \/ \* get_mempool, batch construction or clear_mempool fails
          /\ faults < MaxFaults
          /\ faults' = faults + 1
          /\ spc' = "err"
          /\ sresult' = "refresh_error"
          /\ UNCHANGED mempool_idx
       \/ \* apply_batch fails after clear_mempool
          /\ faults < MaxFaults
          /\ faults' = faults + 1
          /\ spc' = "err"
          /\ sresult' = "refresh_error"
          /\ mempool_idx' = mempool_cleared
    /\ UNCHANGED <<nodeVars, storeVars, workerVars, watch_height, send_batches,
                   block_shelf, current_height, last_height, mpc, tpc, snapshot, late_txs,
                   refreshed>>
    /\ UNCHANGED outsideProd

\* tokio::spawn(monitor_new_blocks), tokio::spawn(monitor_mempool), Ok(())
SeqSpawn ==
    /\ spc = "spawn"
    /\ spc' = "ok"
    /\ sresult' = "ok"
    /\ mpc' = "subscribe"
    /\ tpc' = "subscribe"
    /\ UNCHANGED <<nodeVars, storeVars, workerVars, watch_height, send_batches,
                   block_shelf, current_height, last_height, mempool_idx, snapshot, late_txs,
                   refreshed, faults>>
    /\ UNCHANGED outsideProd

----
\* The node and the live block loop

\* The block loop takes the next notification without refreshing the mempool.
after_block_applied_skip == "stream"

\* try_monitor_new_blocks after apply_block_batches: self.update_mempool().await?
after_block_applied == "refresh"

\* The block subscription of try_monitor_new_blocks is open.
subscribed == mpc \in {"stream", "refresh", "clear", "apply"}

\* The node extends its chain; an open subscription is notified of the new block.
NodeNewBlock ==
    /\ chainTip < MaxTip
    /\ chainTip' = chainTip + 1
    /\ block_stream' = IF subscribed
                         THEN Append(block_stream, chainTip + 1)
                         ELSE block_stream
    /\ UNCHANGED <<mempoolVars, storeVars, workerVars, seqVars, watch_height,
                   send_batches, mpc, faults>>
    /\ UNCHANGED outsideProd

\* try_monitor_new_blocks: bchd.subscribe_blocks(..).await?
\* An error returns to monitor_new_blocks, which calls try_monitor_new_blocks again.
MonSubscribe ==
    /\ mpc = "subscribe"
    /\ \/ mpc' = "stream" /\ UNCHANGED faults
       \/ /\ faults < MaxFaults
          /\ faults' = faults + 1
          /\ mpc' = monitor_restart
    /\ block_stream' = <<>>
    /\ UNCHANGED <<mempoolVars, chainTip, storeVars, workerVars, seqVars, watch_height,
                   send_batches>>
    /\ UNCHANGED outsideProd

\* block_stream.get_mut().message().await? and the loop body up to apply_block_batches
MonMessage ==
    /\ mpc = "stream"
    /\ \/ \* a block notification: make_block_batches and apply_block_batches succeed
          /\ block_stream # <<>>
          /\ dbHeights' = dbHeights \cup {Head(block_stream)}
          /\ applied' = Append(applied, Head(block_stream))
          /\ block_stream' = Tail(block_stream)
          /\ mpc' = after_block_applied
          /\ refreshed' = FALSE
          /\ UNCHANGED faults
       \/ \* a block notification: make_block_batches or apply_block_batches fails
          /\ block_stream # <<>>
          /\ faults < MaxFaults
          /\ faults' = faults + 1
          /\ block_stream' = <<>>
          /\ mpc' = monitor_restart
          /\ UNCHANGED <<storeVars, refreshed>>
       \/ \* the stream fails or ends
          /\ faults < MaxFaults
          /\ faults' = faults + 1
          /\ block_stream' = <<>>
          /\ mpc' = monitor_restart
          /\ UNCHANGED <<storeVars, refreshed>>
    /\ UNCHANGED <<chainTip, workerVars, seqVars, watch_height, send_batches, tpc,
                   mempool_idx, snapshot, late_txs>>
    /\ UNCHANGED outsideProd

\* update_mempool called by try_monitor_new_blocks: get_mempool(..).await?,
\* make_mempool_txs, make_mempool_tx_batches
MonRefresh ==
    /\ mpc = "refresh"
    /\ \/ /\ \E txs \in SUBSET Txs : snapshot' = txs
          /\ late_txs' = {}
          /\ mpc' = "clear"
          /\ UNCHANGED <<block_stream, faults>>
       \/ /\ faults < MaxFaults
          /\ faults' = faults + 1
          /\ block_stream' = <<>>
          /\ mpc' = monitor_restart
          /\ UNCHANGED <<snapshot, late_txs>>
    /\ UNCHANGED <<chainTip, storeVars, workerVars, seqVars, watch_height, send_batches,
                   tpc, mempool_idx, refreshed>>
    /\ UNCHANGED outsideProd

\* update_mempool called by try_monitor_new_blocks: self.db.clear_mempool()?
MonClear ==
    /\ mpc = "clear"
    /\ \/ /\ mempool_idx' = mempool_cleared
          /\ mpc' = "apply"
          /\ UNCHANGED <<block_stream, snapshot, late_txs, faults>>
       \/ /\ faults < MaxFaults
          /\ faults' = faults + 1
          /\ block_stream' = <<>>
          /\ snapshot' = {}
          /\ late_txs' = {}
          /\ mpc' = monitor_restart
          /\ UNCHANGED mempool_idx
    /\ UNCHANGED <<chainTip, storeVars, workerVars, seqVars, watch_height, send_batches,
                   tpc, refreshed>>
    /\ UNCHANGED outsideProd

\* update_mempool called by try_monitor_new_blocks: self.db.apply_batch(batch)?
MonApplySnapshot ==
    /\ mpc = "apply"
    /\ \/ /\ mempool_idx' = mempool_applied(mempool_idx, snapshot)
          /\ mpc' = "stream"
          /\ refreshed' = TRUE
          /\ UNCHANGED <<block_stream, faults>>
       \/ /\ faults < MaxFaults
          /\ faults' = faults + 1
          /\ block_stream' = <<>>
          /\ mpc' = monitor_restart
          /\ UNCHANGED <<mempool_idx, refreshed>>
    /\ snapshot' = {}
    /\ late_txs' = {}
    /\ UNCHANGED <<chainTip, storeVars, workerVars, seqVars, watch_height, send_batches,
                   tpc>>
    /\ UNCHANGED outsideProd

----
\* The live mempool loop

\* try_monitor_mempool: bchd.subscribe_transactions(..).await?
TxSubscribe ==
    /\ tpc = "subscribe"
    /\ \/ tpc' = "stream" /\ UNCHANGED faults
       \/ /\ faults < MaxFaults
          /\ faults' = faults + 1
          /\ tpc' = monitor_restart
    /\ UNCHANGED <<nodeVars, storeVars, workerVars, seqVars, watch_height, send_batches,
                   mpc, mempool_idx, snapshot, late_txs, refreshed>>
    /\ UNCHANGED outsideProd

\* tx_stream.get_mut().message().await? and the loop body
TxMessage ==
    /\ tpc = "stream"
    /\ \/ \* an unconfirmed transaction: make_mempool_tx_batches and apply_batch succeed
          /\ \E t \in Txs :
                 /\ mempool_idx' = mempool_applied(mempool_idx, {t})
                 /\ late_txs' = IF mpc = "clear" THEN late_txs \cup {t} ELSE late_txs
          /\ UNCHANGED <<tpc, faults>>
       \/ \* batch construction or apply_batch fails, or the stream fails or ends
          /\ faults < MaxFaults
          /\ faults' = faults + 1
          /\ tpc' = monitor_restart
          /\ UNCHANGED <<mempool_idx, late_txs>>
    /\ UNCHANGED <<nodeVars, storeVars, workerVars, seqVars, watch_height, send_batches,
                   mpc, snapshot, refreshed>>
    /\ UNCHANGED outsideProd

----
\* What the other components see of IndexerProduction when it does not run.
PipelineOff ==
    /\ chainTip = 0
    /\ dbHeights = {}
    /\ applied = <<>>
    /\ claimed = <<>>
    /\ last_height = 0
    /\ current_height_atomic = 0
    /\ watch_height = 0
    /\ unseen = [w \in Workers |-> FALSE]
    /\ wpc = [w \in Workers |-> "done"]
    /\ block_height = [w \in Workers |-> 0]
    /\ wresult = [w \in Workers |-> "ok"]
    /\ send_batches = <<>>
    /\ block_shelf = {}
    /\ current_height = 0
    /\ spc = "off"
    /\ sresult = "running"
    /\ mpc = "off"
    /\ block_stream = <<>>
    /\ tpc = "off"
    /\ refreshed = TRUE
    /\ faults = 0

pipelineVars == <<chainTip, dbHeights, applied, claimed, last_height,
                  current_height_atomic, watch_height, unseen, wpc, block_height,
                  wresult, send_batches, block_shelf, current_height, spc, sresult,
                  mpc, block_stream, tpc, refreshed, faults>>

----
\* update_mempool on its own: the same mempool snapshot is refreshed twice,
\* from any mempool index.

RefreshTxs == 1..MaxRefreshTxs

UpdateInit ==
    /\ PipelineOff
    /\ ConfigDefault
    /\ BlockTxsOff
    /\ DevOff
    /\ AddressOff
    /\ mempool_idx \in SUBSET RefreshTxs
    /\ snapshot \in SUBSET RefreshTxs
    /\ late_txs = {}
    /\ idx_history = <<mempool_idx>>
    /\ upc = "clear"

\* A clear_mempool that removes only the lowest transaction.
UpdateClearPartial ==
    /\ upc = "clear"
    /\ mempool_idx' = IF mempool_idx = {} THEN {} ELSE mempool_idx \ {SetMin(mempool_idx)}
    /\ upc' = "apply"
    /\ UNCHANGED <<pipelineVars, snapshot, late_txs, idx_history, devVars, addressVars, configVars, blockTxsVars>>

\* self.db.clear_mempool()?
UpdateClear ==
    /\ upc = "clear"
    /\ mempool_idx' = mempool_cleared
    /\ upc' = "apply"
    /\ UNCHANGED <<pipelineVars, snapshot, late_txs, idx_history, devVars, addressVars, configVars, blockTxsVars>>

\* self.db.apply_batch(batch)?; the caller then refreshes once more.
UpdateApply ==
    /\ upc = "apply"
    /\ mempool_idx' = mempool_applied(mempool_idx, snapshot)
    /\ idx_history' = Append(idx_history, mempool_idx')
    /\ upc' = IF Len(idx_history) < 2 THEN "clear" ELSE "done"
    /\ UNCHANGED <<pipelineVars, snapshot, late_txs, devVars, addressVars, configVars, blockTxsVars>>

UpdateNext ==
    \/ UpdateClear
    \/ UpdateApply

UpdateSpec == UpdateInit /\ [][UpdateNext]_vars

----
\* IndexerDevelopment: run_indexer, run_indexer_inner and index_thread of the
\* synthetic variant. The blocks are generated, so no height is ever missing.

\* let num_threads = 1; mpsc::channel(num_threads * 2)
dev_num_threads == 1
dev_channel_capacity == dev_num_threads * 2

\* run_indexer_inner of the synthetic variant has returned.
dev_returned == dev_spc \in {"ok", "err"}

\* The throttle condition of the synthetic index_thread's inner while loop.
dev_throttled(v, h) == v + fetch_ahead < h

\* A shutdown flag that is never seen.
flag_ignored == FALSE

\* self.scheduled_for_termination.load(Relaxed)
flag_loaded == scheduled_for_termination

DevInit ==
    /\ PipelineOff
    /\ mempool_idx = {}
    /\ snapshot = {}
    /\ late_txs = {}
    /\ ConfigDefault
    /\ BlockTxsOff
    /\ UpdateOff
    /\ AddressOff
    /\ scheduled_for_termination = FALSE
    /\ dev_exited = FALSE
    /\ dev_sent_after = 0
    /\ dev_dbHeights \in {0..(k - 1) : k \in 0..MaxStored}
    /\ dev_applied = <<>>
    /\ dev_last_height = last_block_height(dev_dbHeights)
    /\ dev_atomic = dev_last_height
    /\ dev_watch_height = dev_last_height
    /\ dev_unseen = TRUE
    /\ dev_wpc = "claim"
    /\ dev_block_height = 0
    /\ dev_wresult = "running"
    /\ dev_send_batches = <<>>
    /\ dev_block_shelf = {}
    /\ dev_current_height = dev_last_height
    /\ dev_spc = "recv"
    /\ dev_sresult = "running"
    /\ dev_faults = 0

devWorkerVars == <<dev_atomic, dev_wpc, dev_block_height, dev_wresult, dev_unseen>>
devSeqVars == <<dev_block_shelf, dev_current_height, dev_last_height, dev_spc, dev_sresult>>
devStoreVars == <<dev_dbHeights, dev_applied>>
devFlagVars == <<scheduled_for_termination, dev_exited>>
outsideDev == <<prodVars, updateVars, addressVars, configVars, blockTxsVars>>

\* The Ctrl-C handler installed by run_indexer: the first interrupt sets the
\* flag, an interrupt that finds it set exits the process.
DevInterrupt ==
    /\ ~dev_exited
    /\ IF scheduled_for_termination
         THEN dev_exited' = TRUE /\ UNCHANGED scheduled_for_termination
         ELSE scheduled_for_termination' = TRUE /\ UNCHANGED dev_exited
    /\ UNCHANGED <<devWorkerVars, devSeqVars, devStoreVars, dev_send_batches,
                   dev_watch_height, dev_sent_after, dev_faults>>
    /\ UNCHANGED outsideDev

\* let block_height = current_height_atomic.fetch_add(1, SeqCst). The generator
\* never runs out of blocks: heights above MaxTip are claimed only by the
\* iteration that follows the interrupt.
DevClaim ==
    /\ ~dev_exited
    /\ dev_wpc = "claim"
    /\ dev_atomic <= MaxTip \/ scheduled_for_termination
    /\ dev_block_height' = dev_atomic
    /\ dev_atomic' = dev_atomic + 1
    /\ dev_wpc' = "throttle"
    /\ UNCHANGED <<dev_wresult, dev_unseen, devSeqVars, devStoreVars, devFlagVars,
                   dev_send_batches, dev_watch_height, dev_sent_after, dev_faults>>
    /\ UNCHANGED outsideDev

\* while *watch_height_receiver.borrow() + self.max_fetch_ahead < block_height
DevThrottle ==
    /\ ~dev_exited
    /\ dev_wpc = "throttle"
    /\ dev_wpc' = IF dev_throttled(dev_watch_height, dev_block_height) THEN "wait" ELSE "fetch"
    /\ UNCHANGED <<dev_atomic, dev_block_height, dev_wresult, dev_unseen, devSeqVars,
                   devStoreVars, devFlagVars, dev_send_batches, dev_watch_height,
                   dev_sent_after, dev_faults>>
    /\ UNCHANGED outsideDev

\* watch_height_receiver.recv().await
DevWatchRecv ==
    /\ ~dev_exited
    /\ dev_wpc = "wait"
    /\ dev_unseen \/ dev_returned
    /\ dev_unseen' = FALSE
    /\ dev_wpc' = "throttle"
    /\ UNCHANGED <<dev_atomic, dev_block_height, dev_wresult, devSeqVars, devStoreVars,
                   devFlagVars, dev_send_batches, dev_watch_height, dev_sent_after,
                   dev_faults>>
    /\ UNCHANGED outsideDev

\* mocker::generate_* and self.db.make_block_batches(&block)
DevFetch ==
    /\ ~dev_exited
    /\ dev_wpc = "fetch"
    /\ \/ \* the block is generated and its batches are made
          /\ dev_wpc' = "send"
          /\ UNCHANGED <<dev_wresult, dev_faults>>
       \/ \* a generator call or make_block_batches fails: return Err
          /\ dev_faults < MaxFaults
          /\ dev_faults' = dev_faults + 1
          /\ dev_wpc' = "done"
          /\ dev_wresult' = "store_error"
    /\ UNCHANGED <<dev_atomic, dev_block_height, dev_unseen, devSeqVars, devStoreVars,
                   devFlagVars, dev_send_batches, dev_watch_height, dev_sent_after>>
    /\ UNCHANGED outsideDev

\* A send that gives up on a full channel: the batch is dropped.
DevSendLossy ==
    /\ ~dev_exited
    /\ dev_wpc = "send"
    /\ IF dev_returned \/ Len(dev_send_batches) >= dev_channel_capacity
         THEN UNCHANGED dev_send_batches
         ELSE dev_send_batches' = Append(dev_send_batches, dev_block_height)
    /\ dev_sent_after' = IF scheduled_for_termination /\ ~dev_returned
                           THEN dev_sent_after + 1 ELSE dev_sent_after
    /\ dev_wpc' = "check"
    /\ UNCHANGED <<dev_atomic, dev_block_height, dev_wresult, dev_unseen, devSeqVars,
                   devStoreVars, devFlagVars, dev_watch_height, dev_faults>>
    /\ UNCHANGED outsideDev

\* send_batches.send(batches).await, its error only logged
DevSend ==
    /\ ~dev_exited
    /\ dev_wpc = "send"
    /\ IF dev_returned
         THEN UNCHANGED dev_send_batches
         ELSE /\ Len(dev_send_batches) < dev_channel_capacity
              /\ dev_send_batches' = Append(dev_send_batches, dev_block_height)
    /\ dev_sent_after' = IF scheduled_for_termination /\ ~dev_returned
                           THEN dev_sent_after + 1 ELSE dev_sent_after
    /\ dev_wpc' = "check"
    /\ UNCHANGED <<dev_atomic, dev_block_height, dev_wresult, dev_unseen, devSeqVars,
                   devStoreVars, devFlagVars, dev_watch_height, dev_faults>>
    /\ UNCHANGED outsideDev

\* if self.scheduled_for_termination.load(Relaxed) { break Ok(()) }
DevCheck ==
    /\ ~dev_exited
    /\ dev_wpc = "check"
    /\ IF flag_loaded
         THEN dev_wpc' = "done" /\ dev_wresult' = "ok"
         ELSE dev_wpc' = "claim" /\ UNCHANGED dev_wresult
    /\ UNCHANGED <<dev_atomic, dev_block_height, dev_unseen, devSeqVars, devStoreVars,
                   devFlagVars, dev_send_batches, dev_watch_height, dev_sent_after,
                   dev_faults>>
    /\ UNCHANGED outsideDev

\* receive_batches.recv().await and block_shelf.insert; None once the worker has ended
DevSeqRecv ==
    /\ ~dev_exited
    /\ dev_spc = "recv"
    /\ \/ /\ dev_send_batches # <<>>
          /\ dev_block_shelf' = dev_block_shelf \cup {Head(dev_send_batches)}
          /\ dev_send_batches' = Tail(dev_send_batches)
          /\ dev_spc' = "drain"
       \/ /\ dev_send_batches = <<>>
          /\ dev_wpc = "done"
          /\ dev_spc' = "join"
          /\ UNCHANGED <<dev_block_shelf, dev_send_batches>>
    /\ UNCHANGED <<devWorkerVars, devStoreVars, devFlagVars, dev_current_height,
                   dev_last_height, dev_sresult, dev_watch_height, dev_sent_after,
                   dev_faults>>
    /\ UNCHANGED outsideDev

\* while block_shelf.contains_key(&current_height): remove, apply_block_batches, flush
DevSeqApply ==
    /\ ~dev_exited
    /\ dev_spc = "drain"
    /\ IF dev_current_height \notin dev_block_shelf
         THEN /\ dev_spc' = "recv"
              /\ UNCHANGED <<dev_block_shelf, devStoreVars, dev_sresult, dev_faults,
                             dev_send_batches>>
         ELSE /\ dev_block_shelf' = dev_block_shelf \ {dev_current_height}
              /\ \/ \* apply_block_batches fails
                    /\ dev_faults < MaxFaults
                    /\ dev_faults' = dev_faults + 1
                    /\ dev_spc' = "err"
                    /\ dev_sresult' = "store_error"
                    /\ dev_send_batches' = <<>>
                    /\ UNCHANGED devStoreVars
                 \/ \* applied; no flush is due, or flush succeeds
                    /\ dev_dbHeights' = dev_dbHeights \cup {dev_current_height}
                    /\ dev_applied' = Append(dev_applied, dev_current_height)
                    /\ dev_spc' = "publish"
                    /\ UNCHANGED <<dev_sresult, dev_faults, dev_send_batches>>
                 \/ \* applied; flush fails
                    /\ dev_faults < MaxFaults
                    /\ dev_faults' = dev_faults + 1
                    /\ dev_dbHeights' = dev_dbHeights \cup {dev_current_height}
                    /\ dev_applied' = Append(dev_applied, dev_current_height)
                    /\ dev_spc' = "err"
                    /\ dev_sresult' = "store_error"
                    /\ dev_send_batches' = <<>>
    /\ UNCHANGED <<devWorkerVars, devFlagVars, dev_current_height, dev_last_height,
                   dev_watch_height, dev_sent_after>>
    /\ UNCHANGED outsideDev

\* A synthetic sequencer that publishes a height it has not reached.
DevSeqPublishAhead ==
    /\ ~dev_exited
    /\ dev_spc = "publish"
    /\ dev_current_height' = dev_current_height + 1
    /\ dev_watch_height' = dev_current_height' + 1
    /\ dev_unseen' = TRUE
    /\ dev_spc' = "drain"
    /\ UNCHANGED <<dev_atomic, dev_wpc, dev_block_height, dev_wresult, devStoreVars,
                   devFlagVars, dev_block_shelf, dev_last_height, dev_sresult,
                   dev_send_batches, dev_sent_after, dev_faults>>
    /\ UNCHANGED outsideDev

\* current_height += 1; watch_height_sender.broadcast(current_height)
DevSeqPublish ==
    /\ ~dev_exited
    /\ dev_spc = "publish"
    /\ dev_current_height' = dev_current_height + 1
    /\ dev_watch_height' = dev_current_height'
    /\ dev_unseen' = TRUE
    /\ dev_spc' = "drain"
    /\ UNCHANGED <<dev_atomic, dev_wpc, dev_block_height, dev_wresult, devStoreVars,
                   devFlagVars, dev_block_shelf, dev_last_height, dev_sresult,
                   dev_send_batches, dev_sent_after, dev_faults>>
    /\ UNCHANGED outsideDev

\* handle.await??, update_mempool (which is Ok(())), the two spawns of the empty
\* monitors, Ok(())
DevSeqJoin ==
    /\ ~dev_exited
    /\ dev_spc = "join"
    /\ IF dev_wresult # "ok"
         THEN dev_spc' = "err" /\ dev_sresult' = "worker_error"
         ELSE dev_spc' = "ok" /\ dev_sresult' = "ok"
    /\ UNCHANGED <<devWorkerVars, devStoreVars, devFlagVars, dev_block_shelf,
                   dev_current_height, dev_last_height, dev_send_batches,
                   dev_watch_height, dev_sent_after, dev_faults>>
    /\ UNCHANGED outsideDev

DevWorker == DevClaim \/ DevThrottle \/ DevWatchRecv \/ DevFetch \/ DevSend \/ DevCheck

DevSequencer == DevSeqRecv \/ DevSeqApply \/ DevSeqPublish \/ DevSeqJoin

DevNext ==
    \/ DevInterrupt
    \/ DevClaim
    \/ DevThrottle
    \/ DevWatchRecv
    \/ DevFetch
    \/ DevSend
    \/ DevCheck
    \/ DevSeqRecv
    \/ DevSeqApply
    \/ DevSeqPublish
    \/ DevSeqJoin

DevSpec == DevInit /\ [][DevNext]_vars

\* The tokio runtime keeps polling the worker task and run_indexer_inner, and
\* the operator interrupts the run before the generator reaches MaxTip.
DevLiveSpec ==
    /\ DevInit
    /\ [][DevNext]_vars
    /\ WF_vars(DevWorker)
    /\ WF_vars(DevSequencer)

----
\* The two sequencers side by side: the run_indexer_inner loops of
\* IndexerProduction and of IndexerDevelopment receive the same batches in the
\* same order, from the same start height; the workers have ended and no store
\* failure is injected.

\* The sequences of distinct elements of S of length at most n.
RECURSIVE arrivals(_, _)
arrivals(S, n) ==
    IF n = 0 \/ S = {}
      THEN {<<>>}
      ELSE {<<>>} \cup UNION {{<<h>> \o q : q \in arrivals(S \ {h}, n - 1)} : h \in S}

PairInit ==
    /\ chainTip = MaxTip
    /\ dbHeights \in {0..(k - 1) : k \in 0..MaxStored}
    /\ applied = <<>>
    /\ claimed = <<>>
    /\ last_height = last_block_height(dbHeights)
    /\ current_height_atomic = last_height
    /\ watch_height = last_height
    /\ unseen = [w \in Workers |-> FALSE]
    /\ wpc = [w \in Workers |-> "done"]
    /\ block_height = [w \in Workers |-> 0]
    /\ wresult = [w \in Workers |-> "ok"]
    /\ send_batches \in arrivals(last_height..MaxTip, channel_capacity)
    /\ block_shelf = {}
    /\ current_height = last_height
    /\ spc = "recv"
    /\ sresult = "running"
    /\ mpc = "off"
    /\ block_stream = <<>>
    /\ tpc = "off"
    /\ mempool_idx = {}
    /\ snapshot = {}
    /\ late_txs = {}
    /\ refreshed = TRUE
    /\ faults = MaxFaults
    /\ ConfigDefault
    /\ BlockTxsOff
    /\ UpdateOff
    /\ AddressOff
    /\ scheduled_for_termination = FALSE
    /\ dev_exited = FALSE
    /\ dev_sent_after = 0
    /\ dev_dbHeights = dbHeights
    /\ dev_applied = <<>>
    /\ dev_last_height = last_block_height(dev_dbHeights)
    /\ dev_atomic = dev_last_height
    /\ dev_watch_height = dev_last_height
    /\ dev_unseen = FALSE
    /\ dev_wpc = "done"
    /\ dev_block_height = 0
    /\ dev_wresult = "ok"
    /\ dev_send_batches = send_batches
    /\ dev_block_shelf = {}
    /\ dev_current_height = dev_last_height
    /\ dev_spc = "recv"
    /\ dev_sresult = "running"
    /\ dev_faults = MaxFaults

PairNext ==
    \/ SeqRecv
    \/ SeqApply
    \/ SeqPublish
    \/ DevSeqRecv
    \/ DevSeqApply
    \/ DevSeqPublish

PairSpec == PairInit /\ [][PairNext]_vars

----
\* Server::address of server.rs: the balances of an address, computed from the
\* UTXOs chronik returns for its script. The txid of a UTXO is made of its
\* position in that list, so no two UTXOs have the same outpoint; token 0 stands
\* for no token (slpv2 is None) and token -1 for a token id that
\* Sha256d::from_slice rejects.

TokenIds == 1..MaxTokens

\* What chronik reports of a UTXO besides its value and token: the output
\* index, whether it is a coinbase output, the height of its block.
UtxoMeta ==
    {[out_idx |-> 0, is_coinbase |-> FALSE, block_height |-> 1],
     [out_idx |-> 1, is_coinbase |-> TRUE, block_height |-> 2]}

Utxo ==
    {[value |-> v, token |-> 0, amount |-> 0, meta |-> m] :
         v \in 1..MaxValue, m \in UtxoMeta}
        \cup [value : 1..MaxValue, token : TokenIds \cup {-1}, amount : 1..MaxValue,
              meta : UtxoMeta]

\* The txid of the UTXO at position i, as bytes.
txid_of(i) == <<i, 0>>

\* The UTXO list chronik returns: every UTXO with its own txid.
ScriptUtxos ==
    UNION {{[i \in 1..n |-> [txid |-> txid_of(i), value |-> f[i].value,
                              token |-> f[i].token, amount |-> f[i].amount,
                              meta |-> f[i].meta]] : f \in [1..n -> Utxo]} :
           n \in 0..MaxUtxos}

\* blockchain::to_be_hex: the bytes in reverse order, as hex
to_be_hex(bytes) == [j \in 1..Len(bytes) |-> bytes[Len(bytes) + 1 - j]]

\* String::from("main")
main_key == <<"main", 0>>

\* token_id.to_string(): the hex of the token id, never "main"
token_key(t) == <<"token", t>>

\* HashMap::insert / Entry::Vacant::insert
hash_insert(map, k, v) == [x \in DOMAIN map \cup {k} |-> IF x = k THEN v ELSE map[x]]

\* A JsonUtxo whose token amount stays 0.
token_json_utxo_zero(ju, utxo) == ju

\* json_utxo.token_amount = token.amount as u64, in the token arm
token_json_utxo(ju, utxo) == [ju EXCEPT !.token_amount = utxo.amount]

\* JsonUtxo built at the top of the loop body
json_utxo(utxo) ==
    [tx_hash |-> to_be_hex(utxo.txid), out_idx |-> utxo.meta.out_idx,
     sats_amount |-> utxo.value, token_amount |-> 0,
     is_coinbase |-> utxo.meta.is_coinbase, block_height |-> utxo.meta.block_height]

AddressInit ==
    /\ PipelineOff
    /\ mempool_idx = {}
    /\ snapshot = {}
    /\ late_txs = {}
    /\ ConfigDefault
    /\ BlockTxsOff
    /\ UpdateOff
    /\ DevOff
    /\ utxos \in ScriptUtxos
    /\ json_balances = <<>>
    /\ main_json_balance = [token_id |-> 0, sats_amount |-> 0, token_amount |-> 0,
                            utxos |-> <<>>]
    /\ total_xec = 0
    /\ token_dust = 0
    /\ visited = 0
    /\ apc = "loop"

outsideAddress == <<prodVars, updateVars, devVars, configVars, blockTxsVars>>

\* A loop body whose token arm files the UTXO under "main" as well.
AddressVisitAlsoMain ==
    /\ apc = "loop"
    /\ visited < Len(utxos)
    /\ LET i == visited + 1
           utxo == utxos[i]
           k == token_key(utxo.token)
       IN  \/ /\ utxo.token = -1
              /\ apc' = "err"
              /\ UNCHANGED <<json_balances, main_json_balance, total_xec, token_dust, visited>>
           \/ /\ utxo.token > 0
              /\ json_balances' =
                     IF k \in DOMAIN json_balances
                       THEN [json_balances EXCEPT ![k] =
                                [@ EXCEPT !.sats_amount = @ + utxo.value,
                                          !.token_amount = @ + utxo.amount,
                                          !.utxos = Append(@, token_json_utxo(json_utxo(utxo), utxo))]]
                       ELSE hash_insert(json_balances, k,
                                [token_id |-> utxo.token, sats_amount |-> utxo.value,
                                 token_amount |-> utxo.amount,
                                 utxos |-> <<token_json_utxo(json_utxo(utxo), utxo)>>])
              /\ token_dust' = token_dust + utxo.value
              /\ main_json_balance' =
                     [main_json_balance EXCEPT !.utxos = Append(@, json_utxo(utxo))]
              /\ visited' = i
              /\ UNCHANGED <<total_xec, apc>>
           \/ /\ utxo.token = 0
              /\ total_xec' = total_xec + utxo.value
              /\ main_json_balance' =
                     [main_json_balance EXCEPT !.utxos = Append(@, json_utxo(utxo))]
              /\ visited' = i
              /\ UNCHANGED <<json_balances, token_dust, apc>>
    /\ UNCHANGED utxos
    /\ UNCHANGED outsideAddress

\* One iteration of for utxo in utxos.utxos.into_iter()
AddressVisit ==
    /\ apc = "loop"
    /\ visited < Len(utxos)
    /\ LET i == visited + 1
           utxo == utxos[i]
           k == token_key(utxo.token)
       IN  \/ \* Some(token), Sha256d::from_slice(&token.token_id)? fails
              /\ utxo.token = -1
              /\ apc' = "err"
              /\ UNCHANGED <<json_balances, main_json_balance, total_xec, token_dust, visited>>
           \/ \* Some(token): Entry::Occupied or Entry::Vacant
              /\ utxo.token > 0
              /\ json_balances' =
                     IF k \in DOMAIN json_balances
                       THEN [json_balances EXCEPT ![k] =
                                [@ EXCEPT !.sats_amount = @ + utxo.value,
                                          !.token_amount = @ + utxo.amount,
                                          !.utxos = Append(@, token_json_utxo(json_utxo(utxo), utxo))]]
                       ELSE hash_insert(json_balances, k,
                                [token_id |-> utxo.token, sats_amount |-> utxo.value,
                                 token_amount |-> utxo.amount,
                                 utxos |-> <<token_json_utxo(json_utxo(utxo), utxo)>>])
              /\ token_dust' = token_dust + utxo.value
              /\ visited' = i
              /\ UNCHANGED <<main_json_balance, total_xec, apc>>
           \/ \* no token
              /\ utxo.token = 0
              /\ total_xec' = total_xec + utxo.value
              /\ main_json_balance' =
                     [main_json_balance EXCEPT !.utxos = Append(@, json_utxo(utxo))]
              /\ visited' = i
              /\ UNCHANGED <<json_balances, token_dust, apc>>
    /\ UNCHANGED utxos
    /\ UNCHANGED outsideAddress

\* json_balances.insert("main", main_json_balance), then the token lookups,
\* which may fail, and the rendering of the page
AddressFinish ==
    /\ apc = "loop"
    /\ visited = Len(utxos)
    /\ json_balances' = hash_insert(json_balances, main_key, main_json_balance)
    /\ apc' \in {"done", "err"}
    /\ UNCHANGED <<utxos, main_json_balance, total_xec, token_dust, visited>>
    /\ UNCHANGED outsideAddress

AddressNext == AddressVisit \/ AddressFinish

AddressSpec == AddressInit /\ [][AddressNext]_vars

----
\* Server::data_block_txs: the transactions of a block are fetched page by page
\* from the backend. The backend reports the same num_pages with every page
\* of the block; a transaction is named by its page and its place on it.

\* The loop is followed for one request more than the highest num_pages.
MaxRequests == MaxPages + 1

\* What a step of Server::data_block_txs leaves alone.
outsideBlockTxs == <<prodVars, updateVars, devVars, addressVars, configVars>>

\* page_txs.txs of the response to block_txs_by_hash(&block_hash, p, 200)
\* when the page holds n transactions
page_txs(p, n) == [k \in 1..n |-> <<p, k>>]

\* if page == page_txs.num_pages as usize { break; }
page_loop_breaks(next_page, pages) == next_page = pages

\* Sha256d::from_hex_be(block_hex)? and block_by_hash succeeded
BlockTxsInit ==
    /\ PipelineOff
    /\ mempool_idx = {}
    /\ snapshot = {}
    /\ late_txs = {}
    /\ ConfigDefault
    /\ UpdateOff
    /\ DevOff
    /\ AddressOff
    /\ num_pages \in 0..MaxPages
    /\ page = 0
    /\ block_txs = <<>>
    /\ requests = <<>>
    /\ bpc = "loop"

\* One iteration of the loop: block_txs_by_hash(&block_hash, page, 200).await?,
\* the token ids of the page, block_txs.extend, page += 1, the break test
BlockTxsPage ==
    /\ bpc = "loop"
    /\ Len(requests) < MaxRequests
    /\ requests' = Append(requests, page)
    /\ \/ \* the page arrives and its token ids are accepted
          /\ \E n \in 0..MaxPageTxs : block_txs' = block_txs \o page_txs(page, n)
          /\ page' = page + 1
          /\ bpc' = IF page_loop_breaks(page', num_pages) THEN "tokens" ELSE "loop"
       \/ \* the request fails or a token id is rejected
          /\ bpc' = "err"
          /\ UNCHANGED <<page, block_txs>>
    /\ UNCHANGED num_pages
    /\ UNCHANGED outsideBlockTxs

\* batch_get_chronik_tokens(token_ids).await?, block_txs_to_json(..)?, Ok(..)
BlockTxsFinish ==
    /\ bpc = "tokens"
    /\ bpc' \in {"done", "err"}
    /\ UNCHANGED <<num_pages, page, block_txs, requests>>
    /\ UNCHANGED outsideBlockTxs

BlockTxsNext == BlockTxsPage \/ BlockTxsFinish

BlockTxsSpec == BlockTxsInit /\ [][BlockTxsNext]_vars

----
\* Catch-up on a finite chain without failures: the node's tip stays where it
\* is, every fetch of an existing height returns its block, the store and the
\* mempool refresh succeed. The run is followed up to the hand-off, for every
\* look-ahead up to max_fetch_ahead, smaller ones than the worker count included.

CatchUpInit ==
    /\ chainTip \in 0..MaxTip
    /\ dbHeights \in {0..(k - 1) : k \in 0..MaxStored}
    /\ dbHeights \subseteq 0..chainTip
    /\ applied = <<>>
    /\ claimed = <<>>
    /\ last_height = last_block_height(dbHeights)
    /\ current_height_atomic = last_height
    /\ watch_height = last_height
    /\ unseen = [w \in Workers |-> TRUE]
    /\ wpc = [w \in Workers |-> "claim"]
    /\ block_height = [w \in Workers |-> 0]
    /\ wresult = [w \in Workers |-> "running"]
    /\ send_batches = <<>>
    /\ block_shelf = {}
    /\ current_height = last_height
    /\ spc = "recv"
    /\ sresult = "running"
    /\ mpc = "off"
    /\ block_stream = <<>>
    /\ tpc = "off"
    /\ mempool_idx = {}
    /\ snapshot = {}
    /\ late_txs = {}
    /\ refreshed = TRUE
    /\ faults = MaxFaults
    /\ fetch_ahead \in 0..max_fetch_ahead
    /\ BlockTxsOff
    /\ UpdateOff
    /\ DevOff
    /\ AddressOff

\* The steps of one worker task.
index_thread(w) == Claim(w) \/ Throttle(w) \/ WatchRecv(w) \/ Fetch(w) \/ Send(w)

\* The steps of run_indexer_inner.
run_indexer_inner == SeqRecv \/ SeqApply \/ SeqPublish \/ SeqJoin \/ SeqRefresh \/ SeqSpawn

CatchUpNext ==
    \/ \E w \in Workers : Claim(w)
    \/ \E w \in Workers : Throttle(w)
    \/ \E w \in Workers : WatchRecv(w)
    \/ \E w \in Workers : Fetch(w)
    \/ \E w \in Workers : Send(w)
    \/ SeqRecv
    \/ SeqApply
    \/ SeqPublish
    \/ SeqJoin
    \/ SeqRefresh
    \/ SeqSpawn

\* The tokio runtime keeps polling every task that can make a step.
CatchUpSpec ==
    /\ CatchUpInit
    /\ [][CatchUpNext]_vars
    /\ \A w \in Workers : WF_vars(index_thread(w))
    /\ WF_vars(run_indexer_inner)

----
\* Properties

Range(q) == {q[i] : i \in 1..Len(q)}
Last(q) == q[Len(q)]

\* The catch-up run: the pool and the sequencer, before the hand-off to the monitors.
catch_up == mpc = "off"

\* A worker holds a claimed height from the claim until it claims again or finishes.
holding(w) == wpc[w] \in {"throttle", "wait", "fetch", "send"}

\* C1: during catch-up the heights applied by the sequencer are, in this order,
\* last_height, last_height + 1, ...: none skipped, none repeated.
C1_Ordering ==
    catch_up => \A i \in 1..Len(applied) : applied[i] = last_height + i - 1

\* C1 witness: three heights applied in order although a higher batch was received
\* before a lower one (the higher one waited on the shelf).
C1_Witness ==
    /\ catch_up
    /\ Len(applied) >= 2
    /\ \E h \in block_shelf : h > current_height

\* C2: the values returned by fetch_add are last_height, last_height + 1, ...
\* in this order (so they are distinct and consecutive), and no two workers
\* hold the same height.
C2_DistinctClaims ==
    /\ \A i \in 1..Len(claimed) : claimed[i] = last_height + i - 1
    /\ \A v, w \in Workers : (v # w /\ holding(v) /\ holding(w))
                                 => block_height[v] # block_height[w]

\* C2 witness: a worker failed after claiming and the other went on claiming.
C2_Witness ==
    /\ \E w \in Workers : wresult[w] = "transport_error"
    /\ \E w \in Workers : holding(w) /\ Len(claimed) >= 3 /\ block_height[w] = Last(claimed)

\* C3 as stated: no worker holds a claimed height more than max_fetch_ahead
\* above the committed height (the value of the signal).
C3_Original ==
    \A w \in Workers : holding(w) => block_height[w] <= watch_height + max_fetch_ahead

\* C3 amended: a worker past the throttle holds a height at most max_fetch_ahead
\* above the signal's value; a worker still in the throttle holds a height at
\* most max_fetch_ahead + num_threads above it.
C3_Amended ==
    \A w \in Workers :
        /\ wpc[w] \in {"fetch", "send"}
               => block_height[w] <= watch_height + max_fetch_ahead
        /\ wpc[w] \in {"throttle", "wait"}
               => block_height[w] <= watch_height + max_fetch_ahead + num_threads

\* C3 witness: one worker fetches at the bound while another waits above it.
C3_Witness ==
    \E v, w \in Workers :
        /\ wpc[v] = "fetch" /\ block_height[v] = watch_height + max_fetch_ahead
        /\ wpc[w] = "wait" /\ block_height[w] > watch_height + max_fetch_ahead

\* C4: a worker enters the fetch only from the throttle check, at a moment when
\* signal + max_fetch_ahead >= its height; a check that fails suspends it; a
\* suspended worker goes back to the check; and no fetch is in flight for a
\* height above signal + max_fetch_ahead.
C4_ThrottleStep ==
    \A w \in Workers :
        /\ (wpc[w] # "fetch" /\ wpc'[w] = "fetch")
               => /\ wpc[w] = "throttle"
                  /\ watch_height + max_fetch_ahead >= block_height[w]
        /\ (wpc[w] = "throttle" /\ watch_height + max_fetch_ahead < block_height[w])
               => wpc'[w] \in {"throttle", "wait"}
        /\ wpc[w] = "wait" => wpc'[w] \in {"wait", "throttle"}

C4_Throttle ==
    /\ [](\A w \in Workers : wpc[w] = "fetch"
              => watch_height + max_fetch_ahead >= block_height[w])
    /\ [][C4_ThrottleStep]_vars

\* C4 witness: a worker that was suspended on the signal now fetches exactly at the bound.
C4_Witness ==
    \E w \in Workers :
        /\ wpc[w] = "fetch"
        /\ ~unseen[w]
        /\ block_height[w] = watch_height + max_fetch_ahead
        /\ watch_height > last_height

\* C5: every height of the run below the value of the signal has been applied:
\* a value is published only after the application it reports.
C5_PublishAfterApply ==
    \A h \in last_height..(watch_height - 1) : h \in Range(applied)

\* C5 witness: a worker reads, in its throttle check, a value published by the sequencer.
C5_Witness ==
    /\ watch_height >= last_height + 2
    /\ \E w \in Workers : wpc[w] = "throttle"

\* C6 as stated: during catch-up the signal equals the highest height applied to IndexStore.
C6_Original ==
    (catch_up /\ dbHeights # {}) => watch_height = SetMax(dbHeights)

\* C6 amended: during catch-up the signal holds the next height to apply: it is
\* last_height before the first application, afterwards the highest applied
\* height plus one, or that height itself between an application and its
\* publication; when the sequencer waits for a batch it is last_height plus the
\* number of applied batches.
C6_Amended ==
    catch_up =>
        /\ applied = <<>> => watch_height = last_height
        /\ applied # <<>> => watch_height \in {Last(applied), Last(applied) + 1}
        /\ spc \in {"recv", "drain"} => watch_height = last_height + Len(applied)
        /\ spc = "publish" => watch_height = Last(applied)

\* C6 witness: the sequencer waits for a batch after two publications.
C6_Witness ==
    /\ catch_up
    /\ spc = "recv"
    /\ Len(applied) >= 2
    /\ watch_height = Last(applied) + 1

\* C7: the heights IndexStore holds form a range 0..max without a gap.
C7_Contiguous ==
    dbHeights # {} => dbHeights = 0..SetMax(dbHeights)

\* C8: once a fetch failed with a transport error at a height, no batch for
\* that height or a higher one is applied.
C8_NothingFromFailedHeight ==
    \A w \in Workers : wresult[w] = "transport_error"
        => \A i \in 1..Len(applied) : applied[i] < block_height[w]

\* C8 witness: the fetch failed at a height, every lower height of the run is
\* applied, and the batch of a higher height was delivered to the sequencer.
C8_Witness ==
    \E w \in Workers :
        /\ wresult[w] = "transport_error"
        /\ block_height[w] > last_height
        /\ \A h \in last_height..(block_height[w] - 1) : h \in Range(applied)
        /\ \E h \in block_shelf : h > block_height[w]

\* A step of the pool or of run_indexer_inner.
PipelineNext ==
    \/ \E w \in Workers : Claim(w) \/ Throttle(w) \/ WatchRecv(w) \/ Fetch(w) \/ Send(w)
    \/ SeqRecv \/ SeqApply \/ SeqPublish \/ SeqJoin \/ SeqRefresh \/ SeqSpawn

\* C9: after a transport error in a worker the run has returned an error or the
\* pipeline can still take a step towards it: it never hangs.
C9_NeverHangs ==
    (\E w \in Workers : wresult[w] = "transport_error")
        => (spc = "err" \/ ENABLED PipelineNext)

store_error_occurred ==
    sresult = "store_error" \/ \E w \in Workers : wresult[w] = "store_error"

\* C10: once a StoreError has occurred, in a worker or in the sequencer, no
\* further block batch is applied.
C10_NoApplyAfterStoreError ==
    [][store_error_occurred => applied' = applied]_vars

\* The join of run_indexer_inner succeeded; the monitors are not spawned yet.
joined == spc \in {"refresh", "spawn"}

\* The lowest height for which a worker of the finished pool got "block not found".
end_of_chain == SetMin({block_height[w] : w \in Workers})

\* C11: "block not found" ends a worker normally and is no error for the run:
\* without a fault no worker and no run ends with an error; when the join
\* succeeded every worker ended with Ok, nothing at or above the lowest
\* not-found height is applied and, without a fault, exactly the heights of
\* the run below it are applied.
C11_EndOfChainIsSuccess ==
    /\ faults = 0 => /\ sresult \in {"running", "ok"}
                     /\ \A w \in Workers : wresult[w] \in {"running", "ok"}
    /\ \A w \in Workers : wresult[w] = "ok" => wpc[w] = "done"
    /\ joined =>
          /\ \A w \in Workers : wresult[w] = "ok"
          /\ \A i \in 1..Len(applied) : applied[i] < end_of_chain
          /\ faults = 0 => /\ Range(applied) = last_height..(end_of_chain - 1)
                           /\ current_height = end_of_chain

\* C11 witness: the join succeeded without a fault after one worker got
\* "block not found" at a height and the other worker delivered lower heights.
C11_Witness ==
    /\ joined
    /\ faults = 0
    /\ Len(applied) >= 2
    /\ \E w \in Workers : block_height[w] = Last(applied) + 1

\* The heights whose batches the workers delivered to the sequencer: after the
\* receive loop has ended each of them is applied or still on the shelf.
fetched == Range(applied) \cup block_shelf

\* C12: once every worker has ended with "block not found" and the receive loop
\* has ended, the highest applied height is the highest successfully fetched height.
C12_EndOfChainConvergence ==
    (joined /\ fetched # {}) =>
        /\ applied # <<>>
        /\ Last(applied) = SetMax(fetched)

\* C13: when the receive loop has ended and the run goes on to the mempool
\* refresh and the hand-off, the shelf is empty: every received batch is applied.
C13_ShelfDrained ==
    joined => block_shelf = {}

\* C14: the shelf never holds more than num_threads + max_fetch_ahead batches:
\* every height on it passed the throttle, so it is at most max_fetch_ahead
\* above the sequencer's current height, and the shelf holds at most
\* max_fetch_ahead + 1 batches.
C14_ShelfBounded ==
    /\ \A h \in block_shelf : h <= current_height + max_fetch_ahead
    /\ Cardinality(block_shelf) <= max_fetch_ahead + 1
    /\ Cardinality(block_shelf) <= num_threads + max_fetch_ahead

\* C14 witness: the shelf is full up to the look-ahead while a worker that
\* claimed the next height is suspended in the throttle.
C14_Witness ==
    /\ catch_up
    /\ Cardinality(block_shelf) = max_fetch_ahead + 1
    /\ \E w \in Workers : wpc[w] = "wait" /\ block_height[w] = current_height + max_fetch_ahead + 1

monitoring == mpc # "off" \/ tpc # "off"

C16_HandOffStep ==
    /\ (~monitoring /\ monitoring') => (spc = "spawn" /\ mpc' # "off" /\ tpc' # "off")
    /\ (spc # "spawn" /\ spc' = "spawn") => (spc = "refresh" /\ faults' = faults)
    /\ (spc # "refresh" /\ spc' = "refresh")
           => (spc = "join" /\ \A w \in Workers : wresult[w] = "ok")

\* C16: the pool and sequencer phase and the monitor phase never overlap: while
\* a monitor loop exists the receive loop has ended, every worker has ended with
\* Ok and run_indexer_inner has returned Ok; the monitors are started only in
\* the step after a mempool refresh that succeeded, which is entered only from
\* a join that found every worker Ok; after a worker error or a failed run no
\* monitor loop exists.
C16_PhasesDisjoint ==
    /\ [](monitoring =>
             /\ spc = "ok" /\ sresult = "ok"
             /\ send_batches = <<>>
             /\ \A w \in Workers : wpc[w] = "done" /\ wresult[w] = "ok")
    /\ []((\E w \in Workers : wresult[w] \notin {"running", "ok"}) => ~monitoring)
    /\ [](spc = "err" => ~monitoring)
    /\ [][C16_HandOffStep]_vars

\* C16 witness: both monitor loops run after a catch-up that applied two blocks.
C16_Witness ==
    /\ mpc = "stream"
    /\ tpc = "stream"
    /\ watch_height >= last_height + 2

\* try_monitor_new_blocks is inside its mutation sequence: the block batch is
\* applied and update_mempool has not completed.
in_block_sequence == mpc \in {"refresh", "clear", "apply"}

\* C17: while the block loop is inside its sequence (block applied, mempool
\* fetched, mempool index cleared, snapshot applied) no other task changes
\* IndexStore: the mempool index changes only by the block loop's own steps.
C17_SingleWriter ==
    [][(in_block_sequence /\ mpc' = mpc) => mempool_idx' = mempool_idx]_vars

\* The number of blocks applied by the live block loop.
live_applied == IF monitoring THEN Len(applied) - (watch_height - last_height) ELSE 0

C18_RestartStep ==
    /\ mpc # "off" => mpc' \in {"subscribe", "stream", "refresh", "clear", "apply"}
    /\ tpc # "off" => tpc' \in {"subscribe", "stream"}
    /\ (monitoring /\ faults' # faults)
           => \/ mpc' = "subscribe" /\ tpc' = tpc
              \/ tpc' = "subscribe" /\ mpc' = mpc

block_applied_live == mpc = "stream" /\ applied' # applied

\* C19 as stated: the loop applies a block only when the refresh that followed
\* the block it applied before has completed.
C19_Original ==
    [][block_applied_live => refreshed]_vars

C19_RefreshStep ==
    /\ block_applied_live => (mpc' = "refresh" /\ ~refreshed')
    /\ in_block_sequence => applied' = applied
    /\ (mpc = "refresh" /\ mpc' # mpc)
           => \/ mpc' = "clear" /\ faults' = faults
              \/ mpc' = "subscribe" /\ faults' = faults + 1
    /\ (mpc = "clear" /\ mpc' # mpc)
           => \/ mpc' = "apply" /\ faults' = faults /\ mempool_idx' = {}
              \/ mpc' = "subscribe" /\ faults' = faults + 1
    /\ (mpc = "apply" /\ mpc' # mpc)
           => \/ /\ mpc' = "stream" /\ faults' = faults /\ refreshed'
                 /\ mempool_idx' = mempool_idx \cup snapshot
              \/ mpc' = "subscribe" /\ faults' = faults + 1

\* C19 amended: a block the loop applies is followed by the mempool refresh
\* (fetch, clear, apply of the snapshot, in this order), no block is applied
\* while the refresh is under way, and the loop returns to the stream only when
\* the refresh has completed - unless a step of the refresh fails: then the loop
\* restarts at the subscription, and only then is a block applied although the
\* refresh of the block before it did not complete.
C19_Amended ==
    /\ [][C19_RefreshStep]_vars
    /\ [](mpc = "stream" /\ ~refreshed => faults > 0)

\* C19 witness: the refresh that followed a block has completed and the next
\* notification, received meanwhile, waits in the stream.
C19_Witness ==
    /\ mpc = "stream"
    /\ refreshed
    /\ live_applied >= 1
    /\ block_stream # <<>>
    /\ faults = 0

\* C20: the blocks applied by the live block loop are consecutive heights, also
\* across a restart of the loop: after the block at height h the next block the
\* loop applies is h + 1 (so h is not applied again and none is left out).
C20_ContinuesFromNext ==
    \A i \in 2..Len(applied) :
        i - 1 > Len(applied) - live_applied => applied[i] = applied[i - 1] + 1

C22_SendFailedStep ==
    \A w \in Workers :
        (wpc[w] = "send" /\ returned /\ wpc'[w] # "send")
            => /\ wpc'[w] = "claim"
               /\ wresult'[w] = "running"
               /\ send_batches' = send_batches
               /\ block_shelf' = block_shelf
               /\ applied' = applied
               /\ dbHeights' = dbHeights

\* C22: a send after run_indexer_inner has returned (the receiver is dropped)
\* fails without an error for the worker: the worker's result stays open, the
\* batch reaches neither the channel nor the shelf nor IndexStore, the worker
\* is at its next claim, which it can take; and nothing is applied by the
\* pipeline once the sequencer has returned an error.
C22_SendFailureDropsBatch ==
    /\ [][C22_SendFailedStep]_vars
    /\ [][spc = "err" => applied' = applied]_vars
    /\ [](\A w \in Workers : wpc[w] = "claim" => ENABLED Claim(w))

\* C22 witness: the sequencer has returned an error and a worker that fetched
\* an existing block is at its next claim, its batch being nowhere.
C22_Witness ==
    /\ spc = "err"
    /\ faults = 1
    /\ \E w \in Workers :
           /\ wpc[w] = "claim"
           /\ wresult[w] = "running"
           /\ block_height[w] > last_height
           /\ block_height[w] <= chainTip
           /\ block_height[w] \notin Range(applied) \cup block_shelf \cup Range(send_batches)

\* The process exits only by an interrupt that finds the flag set.
C23_ExitStep ==
    (dev_exited' /\ ~dev_exited)
        => /\ scheduled_for_termination
           /\ UNCHANGED <<devWorkerVars, devSeqVars, devStoreVars, dev_send_batches>>

\* C23: in the synthetic variant, once the shutdown flag is set the worker
\* sends at most one more batch; unless a failure was injected it ends with Ok
\* and run_indexer_inner returns Ok, every batch sent having been applied, in
\* height order from the start height; the return does not exit the process,
\* only an interrupt that finds the flag set does; and under fair scheduling the
\* return is reached once the flag is set.
C23_CooperativeShutdown ==
    /\ [](dev_sent_after <= 1)
    /\ []((dev_wpc = "done" /\ dev_faults = 0) => dev_wresult = "ok")
    /\ [](\A i \in 1..Len(dev_applied) : dev_applied[i] = dev_last_height + i - 1)
    /\ [](dev_returned /\ dev_faults = 0
            => /\ dev_spc = "ok"
               /\ scheduled_for_termination
               /\ Len(dev_applied) = dev_atomic - dev_last_height
               /\ dev_send_batches = <<>>
               /\ dev_block_shelf = {})
    /\ [][C23_ExitStep]_vars
    /\ (scheduled_for_termination ~> (dev_spc = "ok" \/ dev_faults > 0 \/ dev_exited))

\* C23 witness: the flag was set, the worker sent one more batch and ended,
\* run_indexer_inner returned Ok with several batches applied and the process
\* is still running.
C23_Witness ==
    /\ dev_spc = "ok"
    /\ dev_sresult = "ok"
    /\ dev_sent_after = 1
    /\ dev_faults = 0
    /\ ~dev_exited
    /\ Len(dev_applied) >= 2

\* The two sequencers have made the same progress: as many batches received,
\* as many applied, the same position.
same_progress ==
    /\ Len(send_batches) = Len(dev_send_batches)
    /\ Len(applied) = Len(dev_applied)
    /\ spc = dev_spc

\* One sequence is a prefix of the other.
prefix_related(p, q) ==
    \A i \in 1..(IF Len(p) < Len(q) THEN Len(p) ELSE Len(q)) : p[i] = q[i]

\* C24: fed the same batches in the same order from the same start height, the
\* two sequencers are in the same state whenever they have made the same
\* progress (same applications, same published height, same shelf), the
\* applications of one are always a prefix of the other's and are the same once
\* both have drained the channel; each publishes, at every write, the start
\* height plus the number of its applications; and the two throttle predicates
\* agree on every pair of heights.
C24_SameOrderingAndBackpressure ==
    /\ [](same_progress
            => /\ applied = dev_applied
               /\ dbHeights = dev_dbHeights
               /\ watch_height = dev_watch_height
               /\ current_height = dev_current_height
               /\ block_shelf = dev_block_shelf
               /\ send_batches = dev_send_batches)
    /\ [](prefix_related(applied, dev_applied))
    /\ []((spc = "join" /\ dev_spc = "join")
            => applied = dev_applied /\ watch_height = dev_watch_height)
    /\ [][watch_height' # watch_height
            => watch_height' = last_height + Len(applied)]_vars
    /\ [][dev_watch_height' # dev_watch_height
            => dev_watch_height' = dev_last_height + Len(dev_applied)]_vars
    /\ [](\A v, h \in 0..(MaxTip + max_fetch_ahead + 1) :
              dev_throttled(v, h) = throttled(v, h))

\* C24 witness: both sequencers have applied the start height after shelving
\* a batch that arrived before it, and are about to publish.
C24_Witness ==
    /\ same_progress
    /\ spc = "publish"
    /\ Len(applied) = 1
    /\ applied = dev_applied
    /\ block_shelf # {}
    /\ block_shelf = dev_block_shelf
    /\ watch_height = dev_watch_height

\* A step of a fetch worker (its position changes): the store, the mempool
\* index and the sequencer's state stay as they are; of the shared state only
\* the claim counter grows by one or the channel gets the worker's batch.
C25_WorkerStep ==
    wpc' # wpc
        => /\ UNCHANGED <<dbHeights, applied, mempool_idx, block_shelf, current_height,
                          watch_height, spc, sresult>>
           /\ \/ UNCHANGED <<current_height_atomic, send_batches>>
              \/ /\ current_height_atomic' = current_height_atomic + 1
                 /\ UNCHANGED send_batches
              \/ /\ \E w \in Workers : send_batches' = Append(send_batches, block_height[w])
                 /\ UNCHANGED current_height_atomic

\* During catch-up a step that changes the store is the sequencer's apply.
C25_StoreStep ==
    (catch_up /\ <<dbHeights, applied>>' # <<dbHeights, applied>>)
        => /\ spc = "drain"
           /\ wpc' = wpc
           /\ \E h \in block_shelf : applied' = Append(applied, h) /\ dbHeights' = dbHeights \cup {h}

\* C25: fetch workers never change IndexStore; during the pool and sequencer
\* phase only the sequencer's apply does, and a worker's step changes of the
\* shared state only the claim counter (by one) or the channel (by its batch).
C25_WorkersLeaveStoreAlone ==
    /\ [][C25_WorkerStep]_vars
    /\ [][C25_StoreStep]_vars

\* C25 witness: during catch-up the workers have claimed heights and sent
\* batches, one of which the sequencer applied while another is in the channel.
C25_Witness ==
    /\ catch_up
    /\ Len(claimed) >= 3
    /\ send_batches # <<>>
    /\ Len(applied) >= 1
    /\ \E w \in Workers : wpc[w] = "send"

\* The channel of the synthetic variant is full and its receiver is alive.
dev_channel_full ==
    /\ Len(dev_send_batches) = dev_channel_capacity
    /\ ~dev_returned

\* A send that completes while the receiver is alive puts the worker's batch
\* at the end of the channel and leaves the worker's result open.
C26_SendStep ==
    (dev_wpc = "send" /\ dev_wpc' # "send" /\ ~dev_returned)
        => /\ dev_send_batches' = Append(dev_send_batches, dev_block_height)
           /\ dev_wresult' = dev_wresult

\* C26: the channel's capacity is twice the worker count; the batches sent and
\* not yet received never exceed it; a worker at a send into a full channel
\* whose receiver is alive cannot complete the send, keeps its batch, and under
\* fair scheduling completes it later; a send completed while the receiver is
\* alive always delivers the batch.
C26_ChannelBounded ==
    /\ [](dev_channel_capacity = 2 * dev_num_threads /\ channel_capacity = 2 * num_threads)
    /\ [](Len(dev_send_batches) <= dev_channel_capacity)
    /\ []((dev_wpc = "send" /\ dev_channel_full) => ~ENABLED DevSend)
    /\ [][(dev_wpc = "send" /\ dev_channel_full)
            => (dev_wpc' = "send" /\ dev_block_height' = dev_block_height
                /\ dev_wresult' = dev_wresult) \/ dev_exited']_vars
    /\ [][C26_SendStep]_vars
    /\ ((dev_wpc = "send" /\ dev_channel_full) ~> (dev_wpc = "check" \/ dev_exited))

\* C26 witness: the worker is at a send with a batch in hand while the channel
\* holds as many batches as its capacity and the sequencer is still receiving.
C26_Witness ==
    /\ dev_wpc = "send"
    /\ dev_channel_full
    /\ ~ENABLED DevSend
    /\ dev_block_height \notin Range(dev_send_batches)
    /\ ~dev_exited

\* C27 as stated: during catch-up the signal always equals its initial value
\* plus the number of batches applied so far in the run.
C27_Original ==
    catch_up => watch_height = last_height + Len(applied)

\* A write of the signal: by the sequencer at its publish position, no worker
\* moving, by exactly one, with one application not yet published.
C27_WriteStep ==
    watch_height' # watch_height
        => /\ spc = "publish"
           /\ wpc' = wpc
           /\ applied' = applied
           /\ watch_height = last_height + Len(applied) - 1
           /\ watch_height' = watch_height + 1

\* An application during catch-up: one batch, made when every earlier one is
\* published, and followed by the publish position or by the error return.
C27_ApplyStep ==
    (catch_up /\ applied' # applied)
        => /\ Len(applied') = Len(applied) + 1
           /\ watch_height = last_height + Len(applied)
           /\ watch_height' = watch_height
           /\ spc' \in {"publish", "err"}

\* C27 amended: the signal is written only by the sequencer, each write adds
\* exactly one and follows exactly one application; during catch-up the signal
\* equals the start height plus the number of applied batches whenever the
\* sequencer is not between an application and its write, and is one less
\* between the two and after an error return.
C27_Amended ==
    /\ [][C27_WriteStep]_vars
    /\ [][C27_ApplyStep]_vars
    /\ [](catch_up =>
            /\ spc \in {"recv", "drain", "join", "refresh", "spawn"}
                   => watch_height = last_height + Len(applied)
            /\ spc = "publish" => watch_height = last_height + Len(applied) - 1
            /\ spc = "err" => watch_height \in {last_height + Len(applied) - 1,
                                                last_height + Len(applied)})

\* C27 witness: the sequencer has applied a second batch and not yet written
\* the signal, which is one behind the number of applications.
C27_Witness ==
    /\ catch_up
    /\ spc = "publish"
    /\ Len(applied) >= 2
    /\ watch_height = last_height + Len(applied) - 1

\* C28: whenever IndexStore's last_block_height() is at least h, the block at
\* height h has been applied to it (a batch is applied as a whole: the store
\* holds a height or does not).
C28_CommittedHeightsApplied ==
    dbHeights # {} =>
        \A h \in 0..MaxTip : last_block_height(dbHeights) >= h => h \in dbHeights

\* The positions of the UTXOs that carry no token, and of those that carry token t.
cash_utxos == {i \in 1..Len(utxos) : utxos[i].token = 0}
utxos_of_token(t) == {i \in 1..Len(utxos) : utxos[i].token = t}

\* The sum of the values of the UTXOs at the positions S.
RECURSIVE sum_values(_)
sum_values(S) ==
    IF S = {} THEN 0
    ELSE LET i == CHOOSE x \in S : TRUE IN utxos[i].value + sum_values(S \ {i})

\* The positions of the UTXOs whose outpoint a balance lists.
listed(balance) ==
    {i \in 1..Len(utxos) :
         \E j \in 1..Len(balance.utxos) :
             /\ balance.utxos[j].tx_hash = to_be_hex(utxos[i].txid)
             /\ balance.utxos[j].out_idx = utxos[i].meta.out_idx}

\* C29: when the page is computed, the "main" balance's sats_amount is the sum
\* of the values of the UTXOs without a token, and its utxos list holds exactly
\* those, each once.
C29_MainBalance ==
    apc = "done" =>
        /\ json_balances[main_key].sats_amount = sum_values(cash_utxos)
        /\ listed(json_balances[main_key]) = cash_utxos
        /\ Len(json_balances[main_key].utxos) = Cardinality(cash_utxos)

\* C30: when the page is computed, the balances map has the key "main" and one
\* key per distinct token id among the UTXOs, no other; without a UTXO that
\* has no token the "main" balance has amounts 0 and no UTXO; every UTXO with a
\* token is listed once under its own token id, whose entry names that id, and
\* under no other key, "main" included.
C30_BalanceKeys ==
    apc = "done" =>
        /\ main_key \in DOMAIN json_balances
        /\ DOMAIN json_balances =
               {main_key} \cup {token_key(utxos[i].token) : i \in 1..Len(utxos) \ cash_utxos}
        /\ cash_utxos = {}
               => /\ json_balances[main_key].sats_amount = 0
                  /\ json_balances[main_key].token_amount = 0
                  /\ json_balances[main_key].utxos = <<>>
        /\ \A t \in TokenIds :
               token_key(t) \in DOMAIN json_balances
                   => /\ json_balances[token_key(t)].token_id = t
                      /\ listed(json_balances[token_key(t)]) = utxos_of_token(t)
                      /\ Len(json_balances[token_key(t)].utxos) = Cardinality(utxos_of_token(t))
        /\ \A i \in 1..Len(utxos) :
               utxos[i].token # 0 => i \notin listed(json_balances[main_key])

\* C30 witness: the page is computed for an address whose UTXOs all carry
\* tokens, of two ids: three keys, an empty "main" balance.
C30_Witness ==
    /\ apc = "done"
    /\ cash_utxos = {}
    /\ Cardinality(DOMAIN json_balances) = 3
    /\ json_balances[main_key].utxos = <<>>

\* The sum of the token amounts of the UTXOs at the positions S.
RECURSIVE sum_amounts(_)
sum_amounts(S) ==
    IF S = {} THEN 0
    ELSE LET i == CHOOSE x \in S : TRUE IN utxos[i].amount + sum_amounts(S \ {i})

\* What the page is to report of the UTXO at position i: its txid as
\* big-endian hex (the bytes reversed) and its own fields.
own_json_utxo(i) ==
    [tx_hash |-> <<utxos[i].txid[2], utxos[i].txid[1]>>,
     out_idx |-> utxos[i].meta.out_idx,
     sats_amount |-> utxos[i].value,
     token_amount |-> utxos[i].amount,
     is_coinbase |-> utxos[i].meta.is_coinbase,
     block_height |-> utxos[i].meta.block_height]

\* C31: when the page is computed, the balance of each token id has as
\* sats_amount the sum of the values and as token_amount the sum of the token
\* amounts of the UTXOs that carry that token, and lists each of these UTXOs
\* once, with that UTXO's own tx hash, output index, value, token amount,
\* coinbase flag and block height.
C31_TokenBalances ==
    apc = "done" =>
        \A t \in TokenIds :
            utxos_of_token(t) # {} =>
                LET balance == json_balances[token_key(t)] IN
                /\ balance.sats_amount = sum_values(utxos_of_token(t))
                /\ balance.token_amount = sum_amounts(utxos_of_token(t))
                /\ Len(balance.utxos) = Cardinality(utxos_of_token(t))
                /\ {balance.utxos[j] : j \in 1..Len(balance.utxos)}
                       = {own_json_utxo(i) : i \in utxos_of_token(t)}

\* C31 witness: the page is computed for an address with two UTXOs of one
\* token that differ in their fields, the second found with the entry occupied.
C31_Witness ==
    /\ apc = "done"
    /\ \E t \in TokenIds :
           /\ Cardinality(utxos_of_token(t)) = 2
           /\ Len(json_balances[token_key(t)].utxos) = 2
           /\ utxos[1].meta # utxos[2].meta
           /\ utxos[1].amount # utxos[2].amount

\* The heights from the start height to the tip, in order.
heights_to_tip == [i \in 1..(chainTip - last_height + 1) |-> last_height + i - 1]

\* At the hand-off of a run without failures every height from the start
\* height to the tip has been applied, once and in order, every worker has
\* ended with Ok on "block not found", and the channel and the shelf are empty.
catch_up_complete ==
    /\ applied = heights_to_tip
    /\ \A w \in Workers : wpc[w] = "done" /\ wresult[w] = "ok" /\ block_height[w] > chainTip
    /\ send_batches = <<>>
    /\ block_shelf = {}

C33_FetchStep ==
    \A w \in Workers :
        (wpc[w] = "fetch" /\ wpc'[w] # "fetch") => wpc'[w] \in {"send", "done"}

\* C33: a worker whose fetch has returned either sends the batch of its height
\* or returns; it never goes from the fetch to its next claim.
C33_FetchedIsSent == [][C33_FetchStep]_vars

\* An application during catch-up applies a height the store does not hold yet.
C34_ApplyStep ==
    (catch_up /\ applied' # applied) => Last(applied') \notin dbHeights

\* C34: the claim counter, the sequencer's next height and the signal start at
\* last_block_height(), the first height claimed and the first applied are
\* that value, and a run over the store an earlier run left applies no height
\* the store already holds.
C34_StartsAtLastHeight ==
    /\ [](claimed # <<>> => claimed[1] = last_height)
    /\ []((catch_up /\ applied # <<>>) => applied[1] = last_height)
    /\ [](claimed = <<>> => current_height_atomic = last_height)
    /\ [](applied = <<>> => current_height = last_height /\ watch_height = last_height)
    /\ [][C34_ApplyStep]_vars

\* C35: once run_indexer_inner has returned, every worker task eventually ends.
C35_WorkersEndAfterReturn ==
    returned ~> (\A w \in Workers : wpc[w] = "done")

\* A step taken after run_indexer_inner has returned an error changes neither
\* the store nor the mempool index nor the channel, and starts no monitor.
C36_AfterErrorStep ==
    spc = "err"
        => /\ UNCHANGED <<dbHeights, applied, mempool_idx, send_batches, block_shelf>>
           /\ UNCHANGED <<spc, sresult, mpc, tpc, watch_height>>

\* C36: once run_indexer_inner has returned an error (store error in the
\* sequencer, failed worker, failed mempool refresh) nothing changes the store
\* or the mempool index any more, a worker's batch only gets dropped, and no
\* monitor loop runs.
C36_NothingAfterError ==
    /\ [][C36_AfterErrorStep]_vars
    /\ [](spc = "err" => mpc = "off" /\ tpc = "off" /\ sresult # "ok")
    /\ [](sresult \in {"store_error", "worker_error", "refresh_error"} => spc = "err")

\* C36 witness: the sequencer returned a store error after an application
\* while a worker stands at its send with a batch in hand.
C36_Witness ==
    /\ spc = "err"
    /\ sresult = "store_error"
    /\ applied # <<>>
    /\ \E w \in Workers : wpc[w] = "send"

\* A failed fetch or batch construction of the block loop's refresh leaves the
\* mempool index as it was.
C37_FailedFetchStep ==
    (mpc = "refresh" /\ mpc' = monitor_restart) => UNCHANGED mempool_idx

\* Nothing is removed from the mempool index except by clear_mempool, which
\* runs after the fetch and the batch construction have succeeded.
C37_ClearedAfterBothStep ==
    (mpc # "clear" /\ spc # "refresh") => mempool_idx \subseteq mempool_idx'

\* The block loop's refresh returns Ok with the index equal to its snapshot.
C37_OkStep ==
    (mpc = "apply" /\ mpc' = "stream") => mempool_idx' = snapshot

\* C37: a full mempool refresh whose fetch or batch construction fails leaves
\* the mempool index unchanged, the index is cleared only after both have
\* succeeded, and a refresh that returns Ok leaves the index equal to exactly
\* the fetched snapshot.
C37_RefreshAllOrNothing ==
    [][C37_FailedFetchStep /\ C37_ClearedAfterBothStep /\ C37_OkStep]_vars

\* The block loop's refresh finishes with every transaction still indexed that
\* the mempool loop applied after the fetch and before the clear and that the
\* snapshot does not hold.
C38_RefreshFinishStep ==
    (mpc = "apply" /\ mpc' = "stream") => (late_txs \ snapshot) \subseteq mempool_idx'

\* C38: a transaction t the mempool loop applies after the block loop's refresh
\* has fetched its snapshot (without t) and before the refresh clears the
\* index is still in the mempool index when the refresh has finished.
C38_LateTxKept ==
    [][C38_RefreshFinishStep]_vars

\* The transactions of block_txs stand in page order, each page's in the
\* order of the page.
in_page_order(txs) ==
    \A i, j \in 1..Len(txs) :
        i < j => \/ txs[i][1] < txs[j][1]
                 \/ txs[i][1] = txs[j][1] /\ txs[i][2] < txs[j][2]

\* C39: the page loop of data_block_txs requests the pages 0, 1, ... each once,
\* makes at most max(1, num_pages) requests whatever num_pages the backend
\* reports (0 included) and so terminates, and what it has collected is the
\* concatenation of the fetched pages in page order.
C39_PageLoopStops ==
    /\ \A i \in 1..Len(requests) : requests[i] = i - 1
    /\ Len(requests) <= (IF num_pages > 1 THEN num_pages ELSE 1)
    /\ in_page_order(block_txs)
    /\ bpc \in {"tokens", "done"} => page = Len(requests)

----
Next ==
    \/ \E w \in Workers : Claim(w)
    \/ \E w \in Workers : Throttle(w)
    \/ \E w \in Workers : WatchRecv(w)
    \/ \E w \in Workers : Fetch(w)
    \/ \E w \in Workers : Send(w)
    \/ SeqRecv
    \/ SeqApply
    \/ SeqPublish
    \/ SeqJoin
    \/ SeqRefresh
    \/ SeqSpawn
    \/ NodeNewBlock
    \/ MonSubscribe
    \/ MonMessage
    \/ MonRefresh
    \/ MonClear
    \/ MonApplySnapshot
    \/ TxSubscribe
    \/ TxMessage

Spec == Init /\ [][Next]_vars

\* The spawned monitor tasks are scheduled by the runtime: a loop that is about
\* to subscribe does subscribe.
LiveSpec == Init /\ [][Next]_vars /\ WF_vars(MonSubscribe) /\ WF_vars(TxSubscribe)


\* The tokio runtime keeps polling every worker task and run_indexer_inner
\* while they can make a step; failures may be injected.
FairSpec ==
    /\ Init
    /\ [][Next]_vars
    /\ \A w \in Workers : WF_vars(index_thread(w))
    /\ WF_vars(run_indexer_inner)

====
